---- MODULE Spec2Model ----
(***************************************************************************)
(* A model of imap2eml.py: one interactive run of main(), which connects   *)
(* to an IMAP server, lists the mailboxes, and writes every message of     *)
(* every mailbox to an .eml file.  The IMAP client (imaplib) and the       *)
(* filesystem are the environment: every call to them is one step whose    *)
(* result is drawn from the results the call can have.                     *)
(*                                                                         *)
(* Strings are sequences of characters; a character is a one-element       *)
(* token.  The tokens "e_acute" and "arabic_3" stand for the code points   *)
(* U+00E9 and U+0663, a non-ASCII letter and a non-ASCII digit.            *)
(***************************************************************************)
EXTENDS Integers, Sequences, FiniteSets, TLC

(* ------------------------------ bounds -------------------------------- *)

\* Longest input string of the sanitizer specification.
MaxLen == 3
\* Most entries in the server's LIST response.
MaxBoxes == 2
\* Most messages the server holds, all mailboxes together.
MaxMsgs == 2
\* Most parts in one FETCH response.
MaxParts == 2

(* --------------------------- sanitize_filename ------------------------ *)

AsciiLetters ==
    {"a", "b", "c", "d", "e", "f", "g", "h", "i", "j", "k", "l", "m",
     "n", "o", "p", "q", "r", "s", "t", "u", "v", "w", "x", "y", "z",
     "A", "B", "C", "D", "E", "F", "G", "H", "I", "J", "K", "L", "M",
     "N", "O", "P", "Q", "R", "S", "T", "U", "V", "W", "X", "Y", "Z"}

AsciiDigits == {"0", "1", "2", "3", "4", "5", "6", "7", "8", "9"}

\* Characters outside ASCII for which str.isalnum() is true.
NonAsciiAlnum == {"e_acute", "arabic_3"}

\* str.isalnum() of one character: Unicode letters and digits, not only ASCII.
isalnum(c) == c \in AsciiLetters \cup AsciiDigits \cup NonAsciiAlnum

\* A plausible slip: the generator filters instead of replacing.
sanitize_dropping(filename) == SelectSeq(filename, isalnum)

\* "".join(c if c.isalnum() else "_" for c in filename)
sanitize_filename(filename) ==
    [i \in 1..Len(filename) |-> IF isalnum(filename[i]) THEN filename[i] ELSE "_"]

(* ------------------------------ the inputs ---------------------------- *)

\* What the operator types at the prompts (stripped).
ServerInput == <<"m", ".", "x">>
UserInput == <<"u", "@", "x">>
PortInputs == {"", "abc"}

\* port = input(...).strip() or "993"
port_or_default(p) == IF p = "" THEN "993" ELSE p

\* Whether int(port) succeeds.
IsNumeric(p) == p \in {"993", "143"}

\* f"{sanitize_filename(server)}_{sanitize_filename(username)}"
output_dir == sanitize_filename(ServerInput) \o <<"_">> \o sanitize_filename(UserInput)

(* --------------------------- the server's data ------------------------ *)

\* Mailbox names the server may list.  The first two differ and sanitize to
\* the same directory name.
MailboxNames == {<<"a", ".">>, <<"a", "_">>, <<"b">>}

\* One LIST response line, split at whitespace: flags, delimiter, name.  A
\* blank line splits into no token at all.
RawEntries == {<<"flags", "/", n>> : n \in MailboxNames} \cup {<<>>}

RawLists == UNION {[1..n -> RawEntries] : n \in 0..MaxBoxes}

\* msg.get("subject", "No_Subject")
NoSubject == <<"N", "o", "_", "S", "u", "b", "j", "e", "c", "t">>

\* The message the server holds under a number of a mailbox: its raw bytes,
\* which no other message has, and the subject header in them.  Messages with
\* an odd number have a subject, the others none.
server_message(mailbox, num) ==
    [bytes |-> <<mailbox, num>>,
     hasSubject |-> num % 2 = 1,
     subject |-> IF num % 2 = 1 THEN <<"H", "!">> ELSE <<>>]

\* One element of msg_data: "tuple", a (header, raw message) pair; "bytes",
\* a bare bytes object such as b')'; "badtuple", a pair whose second element
\* is not bytes, on which email.message_from_bytes raises.
PartKinds == {"tuple", "bytes", "badtuple"}

PartLists == UNION {[1..n -> PartKinds] : n \in 0..MaxParts}

\* messages[0] of a SEARCH response, as its run of tokens: message sequence
\* numbers 1..n, or nothing, or white space only (the token 0).
SearchData(room) == {<<>>, <<0>>} \cup {[i \in 1..n |-> i] : n \in 1..room}

\* messages[0].split()
split(data) == SelectSeq(data, LAMBDA t : t # 0)

VARIABLES
    pc,         \* where main() is
    run,        \* 1 in the first run, 2 in a second run into the same root
    portInput,  \* the port as typed
    mail,       \* the session: "none", "connected", "auth"
    mailboxes,  \* what list_mailboxes returned
    boxIdx,     \* the mailbox the for loop of main() is at
    ids,        \* messages[0].split() of the selected mailbox
    msgIdx,     \* the message the for loop of download_emails is at
    parts,      \* msg_data of the fetched message
    partIdx,    \* the part the inner for loop is at
    dirs,       \* the directories that exist
    files,      \* the files that exist, path -> contents
    log,        \* the calls made to imaplib and the filesystem, with results
    oracle,     \* second run: the log of the first run
    dirs1,      \* second run: dirs at the end of the first run
    files1,     \* second run: files at the end of the first run
    sIn,        \* sanitizer specification: the input string
    sOut,       \* sanitize_filename(sIn)
    sOut2,      \* sanitize_filename(sOut)
    sPc         \* sanitizer specification: applications done

mainVars == <<pc, run, portInput, mail, mailboxes, boxIdx, ids, msgIdx, parts,
              partIdx, dirs, files, log, oracle, dirs1, files1>>
sanVars == <<sIn, sOut, sOut2, sPc>>
vars == <<pc, run, portInput, mail, mailboxes, boxIdx, ids, msgIdx, parts,
          partIdx, dirs, files, log, oracle, dirs1, files1, sIn, sOut, sOut2, sPc>>

(* ----------------------------- the log -------------------------------- *)

Res(st, data) == [st |-> st, data |-> data]

\* One call: the operation, the mailbox and message it is for (0: none),
\* and its result.
Call(op, box, id, res) == [op |-> op, box |-> box, id |-> id, res |-> res]

\* In a second run the server and the filesystem answer as in the first.
Allowed(op, res) ==
    \/ run = 1
    \/ /\ Len(log) < Len(oracle)
       /\ oracle[Len(log) + 1].op = op
       /\ oracle[Len(log) + 1].res = res

RECURSIVE Listed(_)
\* The messages earlier SEARCH responses of this run have listed.
Listed(l) ==
    IF l = <<>> THEN 0
    ELSE LET e == l[Len(l)]
         IN Listed(SubSeq(l, 1, Len(l) - 1))
                + (IF e.op = "search" /\ e.res.st = "OK" THEN Len(split(e.res.data)) ELSE 0)

(* --------------------------- the filesystem --------------------------- *)

\* os.makedirs(path): raises when the path exists.
makedirs_strict(ds, path) == [raised |-> path \in ds, dirs |-> ds \cup {path}]

\* os.makedirs(path, exist_ok=True): an existing directory is no error.  No
\* file of the tree is ever at a directory's path, the one case left in
\* which it raises.
makedirs(ds, path) == [raised |-> FALSE, dirs |-> ds \cup {path}]

\* All mailboxes in one directory.
mailbox_dir_shared(mailbox) == <<output_dir, <<"_">>>>

\* os.path.join(output_dir, sanitize_filename(mailbox))
mailbox_dir(mailbox) == <<output_dir, sanitize_filename(mailbox)>>

\* f"{num.decode('utf-8')}_{sanitize_filename(subject)}.eml": the number is
\* all digits, so the name determines the pair and the pair the name.
eml_filename(num, payload) ==
    <<num, sanitize_filename(IF payload.hasSubject THEN payload.subject ELSE NoSubject)>>

\* os.path.join(mailbox_dir, filename)
eml_path(mailbox, num, payload) ==
    Append(mailbox_dir(mailbox), eml_filename(num, payload))

\* The file is written from the parsed message, its line endings normalised.
written_bytes_reencoded(payload) == <<Append(payload.bytes[1], "LF"), payload.bytes[2]>>

\* f.write(response_part[1])
written_bytes(payload) == payload.bytes

\* open(path, "wb") then f.write(data).  open creates or truncates the file
\* before anything is written: a write that fails leaves a partial file
\* (the empty contents stand for any partial contents).
write_file(fs, path, data, st) ==
    IF st = "openfail" THEN fs
    ELSE [p \in DOMAIN fs \cup {path} |->
            IF p = path THEN (IF st = "ok" THEN data ELSE <<>>) ELSE fs[p]]

WriteResults == {"ok", "openfail", "writefail"}

(* ---------------------------- control flow ----------------------------- *)

Goto(p, b, is, m, ps, k) ==
    /\ pc' = p
    /\ boxIdx' = b
    /\ ids' = is
    /\ msgIdx' = m
    /\ parts' = ps
    /\ partIdx' = k

\* main() ends by an exception nothing catches.
raise_from_main == Goto("raised", boxIdx, <<>>, 0, <<>>, 0)

\* download_emails returns: the for loop of main() takes the next mailbox,
\* or ends, and main() goes on to the logout.
next_mailbox ==
    IF boxIdx < Len(mailboxes)
    THEN Goto("select", boxIdx + 1, <<>>, 0, <<>>, 0)
    ELSE Goto("logout", boxIdx, <<>>, 0, <<>>, 0)

\* The for loop over messages[0].split() takes the next number, or ends and
\* download_emails returns.
next_message ==
    IF msgIdx < Len(ids)
    THEN Goto("fetch", boxIdx, ids, msgIdx + 1, <<>>, 0)
    ELSE next_mailbox

\* The for loop over msg_data takes the next part, or ends.
next_part ==
    IF partIdx < Len(parts)
    THEN Goto("part", boxIdx, ids, msgIdx, parts, partIdx + 1)
    ELSE next_message

\* No handler around one message: the error ends the mailbox.
on_message_error_uncaught == next_mailbox

\* "except Exception" around one message: report, take the next message.
on_message_error == next_message

\* No handler around one mailbox: the error ends main().
on_mailbox_error_uncaught == raise_from_main

\* "except Exception" around one mailbox: report, return.
on_mailbox_error == next_mailbox

\* Only imaplib's own error is caught.
connect_catches_imap_only(st) == st = "imaperr"

\* connect_to_imap catches imaplib.IMAP4.error and then Exception, around the
\* connection and around the login, and returns None.
connect_catches(st) == st \in {"imaperr", "exc"}

\* The logout is not guarded.
on_logout_error_unguarded == raise_from_main

\* "except Exception" around mail.logout(): report; main() returns.
on_logout_error == Goto("done", boxIdx, <<>>, 0, <<>>, 0)

(* ------------------------------- main() ------------------------------- *)

Idle ==
    /\ mail = "none" /\ mailboxes = <<>> /\ boxIdx = 0 /\ ids = <<>>
    /\ msgIdx = 0 /\ parts = <<>> /\ partIdx = 0 /\ log = <<>>

Init ==
    /\ pc = "start" /\ run = 1 /\ portInput \in PortInputs
    /\ Idle
    /\ dirs = {} /\ files = <<>>
    /\ oracle = <<>> /\ dirs1 = {} /\ files1 = <<>>
    /\ sIn = <<>> /\ sOut = <<>> /\ sOut2 = <<>> /\ sPc = 0

\* get_user_inputs, the output directory's name, os.makedirs(output_dir,
\* exist_ok=True).  Nothing in main() catches an error of this call.
MakeRoot ==
    /\ pc = "start"
    /\ LET r == makedirs(dirs, <<output_dir>>)
       IN /\ dirs' = r.dirs
          /\ log' = Append(log, Call("makedirs", 0, 0,
                                     Res(IF r.raised THEN "exc" ELSE "ok", <<output_dir>>)))
          /\ IF r.raised THEN raise_from_main
             ELSE Goto("connect", 0, <<>>, 0, <<>>, 0)
    /\ UNCHANGED <<run, portInput, mail, mailboxes, files, oracle, dirs1, files1, sanVars>>

\* What imaplib.IMAP4_SSL(server, int(port)) can do: int() raises ValueError
\* on a port that is no number.
ConnectResults(p) == IF IsNumeric(p) THEN {"ok", "imaperr", "exc"} ELSE {"exc"}

\* mail = imaplib.IMAP4_SSL(server, int(port)), and on failure the return of
\* None and main()'s "if not mail: return".
Connect ==
    /\ pc = "connect"
    /\ \E st \in ConnectResults(port_or_default(portInput)) :
        /\ Allowed("connect", Res(st, <<>>))
        /\ log' = Append(log, Call("connect", 0, 0, Res(st, <<>>)))
        /\ IF st = "ok"
           THEN mail' = "connected" /\ Goto("login", 0, <<>>, 0, <<>>, 0)
           ELSE /\ mail' = "none"
                /\ IF connect_catches(st) THEN Goto("done", 0, <<>>, 0, <<>>, 0)
                   ELSE raise_from_main
    /\ UNCHANGED <<run, portInput, mailboxes, dirs, files, oracle, dirs1, files1, sanVars>>

\* mail.login(username, password), and on failure the return of None and
\* main()'s "if not mail: return".
Login ==
    /\ pc = "login"
    /\ \E st \in {"ok", "imaperr", "exc"} :
        /\ Allowed("login", Res(st, <<>>))
        /\ log' = Append(log, Call("login", 0, 0, Res(st, <<>>)))
        /\ IF st = "ok"
           THEN mail' = "auth" /\ Goto("list", 0, <<>>, 0, <<>>, 0)
           ELSE /\ mail' = "none"
                /\ IF connect_catches(st) THEN Goto("done", 0, <<>>, 0, <<>>, 0)
                   ELSE raise_from_main
    /\ UNCHANGED <<run, portInput, mailboxes, dirs, files, oracle, dirs1, files1, sanVars>>

ListResults ==
    {Res("OK", l) : l \in RawLists} \cup {Res("NO", <<>>), Res("exc", <<>>)}

\* list_mailboxes: [box.split()[-1].decode() for box in mailboxes] when the
\* status is OK, and [] when it is not, when mail.list() raises, or when an
\* entry has no last token (IndexError, caught).
parse_list(res) ==
    IF res.st # "OK" \/ \E i \in 1..Len(res.data) : Len(res.data[i]) = 0
    THEN <<>>
    ELSE [i \in 1..Len(res.data) |-> res.data[i][Len(res.data[i])]]

\* mailboxes = list_mailboxes(mail); "if not mailboxes: return"; otherwise
\* the for loop over the mailboxes starts.
List ==
    /\ pc = "list"
    /\ \E res \in ListResults :
        /\ Allowed("list", res)
        /\ log' = Append(log, Call("list", 0, 0, res))
        /\ mailboxes' = parse_list(res)
        /\ IF parse_list(res) = <<>> THEN Goto("done", 0, <<>>, 0, <<>>, 0)
           ELSE Goto("select", 1, <<>>, 0, <<>>, 0)
    /\ UNCHANGED <<run, portInput, mail, dirs, files, oracle, dirs1, files1, sanVars>>

(* --------------------------- download_emails -------------------------- *)

\* status, _ = mail.select(mailbox)
Select ==
    /\ pc = "select"
    /\ \E st \in {"OK", "NO", "exc"} :
        /\ Allowed("select", Res(st, <<>>))
        /\ log' = Append(log, Call("select", boxIdx, 0, Res(st, <<>>)))
        /\ IF st = "OK" THEN Goto("search", boxIdx, <<>>, 0, <<>>, 0)
           ELSE IF st = "NO" THEN next_mailbox
           ELSE on_mailbox_error
    /\ UNCHANGED <<run, portInput, mail, mailboxes, dirs, files, oracle, dirs1, files1, sanVars>>

\* Only the status is looked at.
search_found_nothing_status_only(res) == res.st # "OK"

\* status != "OK" or not messages[0]
search_found_nothing(res) == res.st # "OK" \/ Len(res.data) = 0

SearchResults ==
    {Res("OK", d) : d \in SearchData(MaxMsgs - Listed(log))}
        \cup {Res("NO", <<>>), Res("exc", <<>>)}

\* status, messages = mail.search(None, "ALL"); return when the status is
\* not OK or messages[0] is empty.
Search ==
    /\ pc = "search"
    /\ \E res \in SearchResults :
        /\ Allowed("search", res)
        /\ log' = Append(log, Call("search", boxIdx, 0, res))
        /\ IF res.st = "exc" THEN on_mailbox_error
           ELSE IF search_found_nothing(res) THEN next_mailbox
           ELSE Goto("makedirs", boxIdx, split(res.data), 0, <<>>, 0)
    /\ UNCHANGED <<run, portInput, mail, mailboxes, dirs, files, oracle, dirs1, files1, sanVars>>

\* os.makedirs(mailbox_dir, exist_ok=True), then the for loop over the
\* message numbers starts.
Makedirs ==
    /\ pc = "makedirs"
    /\ LET d == mailbox_dir(mailboxes[boxIdx])
           r == makedirs(dirs, d)
       IN /\ dirs' = r.dirs
          /\ log' = Append(log, Call("makedirs", boxIdx, 0,
                                     Res(IF r.raised THEN "exc" ELSE "ok", d)))
          /\ IF r.raised THEN on_mailbox_error ELSE next_message
    /\ UNCHANGED <<run, portInput, mail, mailboxes, files, oracle, dirs1, files1, sanVars>>

FetchResults ==
    {Res("OK", ps) : ps \in PartLists} \cup {Res("NO", <<>>), Res("exc", <<>>)}

\* status, msg_data = mail.fetch(num, "(RFC822)"); "continue" when the status
\* is not OK; otherwise the for loop over msg_data starts.
Fetch ==
    /\ pc = "fetch"
    /\ \E res \in FetchResults :
        /\ Allowed("fetch", res)
        /\ log' = Append(log, Call("fetch", boxIdx, ids[msgIdx], res))
        /\ IF res.st = "exc" THEN on_message_error
           ELSE IF res.st # "OK" \/ Len(res.data) = 0 THEN next_message
           ELSE Goto("part", boxIdx, ids, msgIdx, res.data, 1)
    /\ UNCHANGED <<run, portInput, mail, mailboxes, dirs, files, oracle, dirs1, files1, sanVars>>

\* One pass of "for response_part in msg_data": a part that is no tuple is
\* passed over; a tuple is parsed, named and written.
Part ==
    /\ pc = "part"
    /\ LET part == parts[partIdx]
           num == ids[msgIdx]
           payload == server_message(mailboxes[boxIdx], num)
           path == eml_path(mailboxes[boxIdx], num, payload)
       IN \/ /\ part = "bytes"
             /\ next_part
             /\ UNCHANGED <<files, log>>
          \/ /\ part = "badtuple"
             /\ log' = Append(log, Call("parse", boxIdx, num, Res("exc", <<>>)))
             /\ on_message_error
             /\ UNCHANGED files
          \/ /\ part = "tuple"
             /\ \E st \in WriteResults :
                 LET res == Res(st, <<path, written_bytes(payload)>>)
                 IN /\ Allowed("write", res)
                    /\ log' = Append(log, Call("write", boxIdx, num, res))
                    /\ files' = write_file(files, path, written_bytes(payload), st)
                    /\ IF st = "ok" THEN next_part ELSE on_message_error
    /\ UNCHANGED <<run, portInput, mail, mailboxes, dirs, oracle, dirs1, files1, sanVars>>

\* mail.logout() in its try block; main() returns.
Logout ==
    /\ pc = "logout"
    /\ \E st \in {"ok", "exc"} :
        /\ Allowed("logout", Res(st, <<>>))
        /\ log' = Append(log, Call("logout", 0, 0, Res(st, <<>>)))
        /\ IF st = "ok" THEN Goto("done", boxIdx, <<>>, 0, <<>>, 0)
           ELSE on_logout_error
    /\ UNCHANGED <<run, portInput, mail, mailboxes, dirs, files, oracle, dirs1, files1, sanVars>>

\* The operator starts the program again with the same answers, against the
\* same server state.
Rerun ==
    /\ pc = "done" /\ run = 1
    /\ pc' = "start" /\ run' = 2
    /\ oracle' = log /\ dirs1' = dirs /\ files1' = files
    /\ mail' = "none" /\ mailboxes' = <<>> /\ boxIdx' = 0 /\ ids' = <<>>
    /\ msgIdx' = 0 /\ parts' = <<>> /\ partIdx' = 0 /\ log' = <<>>
    /\ UNCHANGED <<portInput, dirs, files, sanVars>>

Next ==
    \/ MakeRoot \/ Connect \/ Login \/ List
    \/ Select \/ Search \/ Makedirs \/ Fetch \/ Part
    \/ Logout

Spec == Init /\ [][Next]_vars

NextRerun == Next \/ Rerun

SpecRerun == Init /\ [][NextRerun]_vars

(* ---------------------- the sanitizer on its own ---------------------- *)

SanChars == {"a", "Z", "7", ".", "_", "e_acute", "arabic_3"}

SanStrings == UNION {[1..n -> SanChars] : n \in 0..MaxLen}

InitSan ==
    /\ pc = "idle" /\ run = 1 /\ portInput = ""
    /\ Idle
    /\ dirs = {} /\ files = <<>>
    /\ oracle = <<>> /\ dirs1 = {} /\ files1 = <<>>
    /\ sIn \in SanStrings /\ sOut = <<>> /\ sOut2 = <<>> /\ sPc = 0

Sanitize ==
    /\ sPc = 0
    /\ sOut' = sanitize_filename(sIn)
    /\ sPc' = 1
    /\ UNCHANGED <<mainVars, sIn, sOut2>>

SanitizeAgain ==
    /\ sPc = 1
    /\ sOut2' = sanitize_filename(sOut)
    /\ sPc' = 2
    /\ UNCHANGED <<mainVars, sIn, sOut>>

NextSan == Sanitize \/ SanitizeAgain

SpecSan == InitSan /\ [][NextSan]_vars

(* ======================== the claims, C1 to C5 ======================== *)

LogIdx == 1..Len(log)

MailboxOps == {"list", "select", "search", "fetch"}

Failed(e) == e.res.st \notin {"ok", "OK"}

LoggedIn(upto) ==
    \E c, l \in 1..upto :
        /\ c < l
        /\ log[c].op = "connect" /\ log[c].res.st = "ok"
        /\ log[l].op = "login" /\ log[l].res.st = "ok"

SelectedOK(b, upto) ==
    \E i \in 1..upto : log[i].op = "select" /\ log[i].box = b /\ log[i].res.st = "OK"

\* The search of mailbox b returned OK and data that is not empty.
SearchedNonEmpty(b, upto) ==
    \E i \in 1..upto :
        /\ log[i].op = "search" /\ log[i].box = b
        /\ log[i].res.st = "OK" /\ Len(log[i].res.data) > 0

\* The search of mailbox b returned OK and at least one message number.
SearchedWithIds(b, upto) ==
    \E i \in 1..upto :
        /\ log[i].op = "search" /\ log[i].box = b
        /\ log[i].res.st = "OK" /\ Len(split(log[i].res.data)) > 0

Logouts == {i \in LogIdx : log[i].op = "logout"}

Selects == SelectSeq(log, LAMBDA e : e.op = "select")

\* C1 (as claimed): once connect and login have succeeded, main() never
\* returns without having called logout, also when list_mailboxes returned
\* an empty list.
C1_LogoutOnEveryReturn ==
    (pc = "done" /\ LoggedIn(Len(log))) => Logouts # {}

\* C2: main() neither raises nor skips: download_emails is entered, and so
\* select is called, exactly once for each listed mailbox, in the order
\* listed, whatever failed in the mailboxes before.
C2_EveryMailboxSelectedInOrder ==
    /\ pc # "raised"
    /\ \A k \in 1..Len(Selects) : Selects[k].box = k
    /\ Len(Selects) = (IF pc \in {"logout", "done"} THEN Len(mailboxes)
                       ELSE IF pc = "select" THEN boxIdx - 1
                       ELSE boxIdx)

\* C2's case: two mailboxes, a failure in the first, the second selected,
\* main() returned.
C2_Witness ==
    /\ pc = "done" /\ Len(mailboxes) = 2
    /\ \E i, j \in LogIdx :
        /\ i < j
        /\ log[i].box = 1 /\ Failed(log[i])
        /\ log[j].op = "select" /\ log[j].box = 2

\* C3: no list, select, search or fetch is issued before the connection and
\* the login have both succeeded; after a failed connection or login (a port
\* that is no number included) main() has returned, without raising, and has
\* issued no mailbox operation and created no mailbox directory and no file.
C3_NoMailboxOpBeforeLogin ==
    /\ pc # "raised"
    /\ \A i \in LogIdx : log[i].op \in MailboxOps => LoggedIn(i - 1)
    /\ (\E i \in LogIdx : log[i].op \in {"connect", "login"} /\ Failed(log[i])) =>
        /\ pc = "done"
        /\ \A i \in LogIdx : log[i].op \notin MailboxOps \cup {"write", "parse", "logout"}
        /\ dirs \subseteq {<<output_dir>>}
        /\ DOMAIN files = {}

\* C3's case: the port typed is no number, and main() has returned.
C3_Witness ==
    /\ pc = "done" /\ portInput = "abc"
    /\ \E i \in LogIdx : log[i].op = "connect" /\ log[i].res.st = "exc"

\* C4 (as claimed): the directory sanitize(mailboxName) exists only if that
\* mailbox's select returned OK and its search returned OK with at least one
\* message number.
C4_DirOnlyIfOwnSearchHasIds ==
    \A b \in 1..Len(mailboxes) :
        <<output_dir, sanitize_filename(mailboxes[b])>> \in dirs =>
            SelectedOK(b, Len(log)) /\ SearchedWithIds(b, Len(log))

\* C4 (amended): a mailbox directory exists only if it is the directory of
\* some listed mailbox whose select returned OK and whose search returned OK
\* with data that is not empty; and a mailbox creates a directory only after
\* such a select and search of its own.
C4_DirOnlyAfterNonEmptySearch ==
    /\ \A d \in dirs \ {<<output_dir>>} :
        \E b \in 1..Len(mailboxes) :
            /\ d = <<output_dir, sanitize_filename(mailboxes[b])>>
            /\ SelectedOK(b, Len(log)) /\ SearchedNonEmpty(b, Len(log))
    /\ \A i \in LogIdx :
        (log[i].op = "makedirs" /\ log[i].box > 0) =>
            SelectedOK(log[i].box, i - 1) /\ SearchedNonEmpty(log[i].box, i - 1)
    /\ \A i \in LogIdx :
        (log[i].op \in {"select", "search"} /\ Failed(log[i])) =>
            \A j \in LogIdx : ~(log[j].op = "makedirs" /\ log[j].box = log[i].box)

\* C4's case: a mailbox whose select failed, beside a mailbox of another name
\* and the same directory name whose export created the directory.
C4_Witness ==
    \E b1, b2 \in 1..Len(mailboxes) :
        /\ mailboxes[b1] # mailboxes[b2]
        /\ sanitize_filename(mailboxes[b1]) = sanitize_filename(mailboxes[b2])
        /\ \E i \in LogIdx : log[i].op = "select" /\ log[i].box = b1 /\ Failed(log[i])
        /\ <<output_dir, sanitize_filename(mailboxes[b2])>> \in dirs

\* C5: logout is called at most once, as the last call of the run, so after
\* every select, search and fetch; with a mailbox list that is not empty it
\* is called exactly once; and main() returns and does not raise, also when
\* logout itself raises.
C5_LogoutOnceAtEnd ==
    /\ pc # "raised"
    /\ Cardinality(Logouts) <= 1
    /\ \A i \in Logouts : i = Len(log) /\ pc = "done"
    /\ (pc = "done" /\ Len(mailboxes) > 0) =>
        /\ Cardinality(Logouts) = 1
        /\ \E i \in LogIdx : log[i].op = "select" /\ log[i].box = Len(mailboxes)

\* C5's case: a write failed in a mailbox, the logout raised, main() returned.
C5_Witness ==
    /\ pc = "done"
    /\ \E i, j \in LogIdx :
        /\ i < j
        /\ log[i].op = "write" /\ Failed(log[i])
        /\ log[j].op = "logout" /\ log[j].res.st = "exc"

(* ======================== the claims, C6 to C10 ======================= *)

AsciiAlnum == AsciiLetters \cup AsciiDigits

\* C6 (as claimed): the output has the input's length, holds only ASCII
\* letters, ASCII digits and the underscore, keeps every ASCII letter and
\* digit in place, and sanitizing it again changes nothing.
C6_OutputAsciiOnly ==
    /\ sPc >= 1 =>
        /\ Len(sOut) = Len(sIn)
        /\ \A i \in 1..Len(sOut) : sOut[i] \in AsciiAlnum \cup {"_"}
        /\ \A i \in 1..Len(sIn) : sIn[i] \in AsciiAlnum => sOut[i] = sIn[i]
    /\ sPc = 2 => sOut2 = sOut

\* C6 (amended): the output has the input's length, keeps every letter and
\* digit, ASCII or not, in place, has an underscore in place of every other
\* character, and sanitizing it again changes nothing.
C6_SanitizeShape ==
    /\ sPc >= 1 =>
        /\ Len(sOut) = Len(sIn)
        /\ \A i \in 1..Len(sIn) :
            IF sIn[i] \in AsciiAlnum \cup {"e_acute", "arabic_3"}
            THEN sOut[i] = sIn[i]
            ELSE sOut[i] = "_"
    /\ sPc = 2 => sOut2 = sOut

\* C6's case: a string with an ASCII letter, a letter outside ASCII and a
\* character that is neither, sanitized twice.
C6_Witness ==
    /\ sPc = 2
    /\ \E i, j, k \in 1..Len(sIn) :
        sIn[i] = "e_acute" /\ sIn[j] = "." /\ sIn[k] = "a"

\* A write that opened its file (and so created or truncated it).
Opened(e) == e.op = "write" /\ e.res.st # "openfail"

PathOf(e) == e.res.data[1]

\* The file at the path of write i is, at the end, the file of the message
\* of write i: the last write that opened it was for that very message.
OwnFile(i) ==
    /\ PathOf(log[i]) \in DOMAIN files
    /\ \E j \in LogIdx :
        /\ Opened(log[j]) /\ PathOf(log[j]) = PathOf(log[i])
        /\ \A k \in LogIdx : (Opened(log[k]) /\ PathOf(log[k]) = PathOf(log[i])) => k <= j
        /\ mailboxes[log[j].box] = mailboxes[log[i].box]
        /\ log[j].id = log[i].id

\* C7 (as claimed): two distinct listed mailboxes never write to the same
\* path, and every message written is its own file when main() returns.
C7_DistinctMailboxesDisjoint ==
    /\ \A i, j \in LogIdx :
        (/\ Opened(log[i]) /\ Opened(log[j])
         /\ mailboxes[log[i].box] # mailboxes[log[j].box])
            => PathOf(log[i]) # PathOf(log[j])
    /\ pc = "done" =>
        \A i \in LogIdx : (log[i].op = "write" /\ log[i].res.st = "ok") => OwnFile(i)

\* No other listed mailbox has the directory name of mailbox b.
DirNotShared(b) ==
    \A c \in 1..Len(mailboxes) :
        sanitize_filename(mailboxes[c]) = sanitize_filename(mailboxes[b])
            => mailboxes[c] = mailboxes[b]

\* C7 (amended): two listed mailboxes whose names sanitize to different
\* directory names never write to the same path, and every message written
\* for a mailbox whose directory name no other listed mailbox shares is its
\* own file when main() returns.
C7_DistinctDirsDisjoint ==
    /\ \A i, j \in LogIdx :
        (/\ Opened(log[i]) /\ Opened(log[j])
         /\ sanitize_filename(mailboxes[log[i].box]) # sanitize_filename(mailboxes[log[j].box]))
            => PathOf(log[i]) # PathOf(log[j])
    /\ pc = "done" =>
        \A i \in LogIdx :
            (log[i].op = "write" /\ log[i].res.st = "ok" /\ DirNotShared(log[i].box))
                => OwnFile(i)

\* C7's case: two mailboxes with different directory names, a message of
\* each written, main() returned.
C7_Witness ==
    /\ pc = "done"
    /\ \E i, j \in LogIdx :
        /\ log[i].op = "write" /\ log[i].res.st = "ok"
        /\ log[j].op = "write" /\ log[j].res.st = "ok"
        /\ log[i].id = log[j].id
        /\ sanitize_filename(mailboxes[log[i].box]) # sanitize_filename(mailboxes[log[j].box])

\* C8: in a second run into the same root, with the server and the
\* filesystem answering as in the first, no directory creation fails, main()
\* does not raise, and when it returns the directories, the files and every
\* file's contents are those the first run left.
C8_SecondRunSameTree ==
    run = 2 =>
        /\ pc # "raised"
        /\ \A i \in LogIdx : log[i].op = "makedirs" => log[i].res.st = "ok"
        /\ pc = "done" => (dirs = dirs1 /\ files = files1)

\* C8's case: the second run has returned, and it created a mailbox
\* directory anew, wrote one file and failed to write another.
C8_Witness ==
    /\ run = 2 /\ pc = "done"
    /\ \E i, j, k \in LogIdx :
        /\ log[i].op = "makedirs" /\ log[i].box > 0
        /\ log[j].op = "write" /\ log[j].res.st = "ok"
        /\ log[k].op = "write" /\ log[k].res.st = "writefail"

\* The message fetched by call i is dealt with: the loop over its parts is
\* over.
Complete(i) ==
    ~(pc = "part" /\ \A j \in (i + 1)..Len(log) : log[j].op \in {"write", "parse"})

\* The parse failures and the writes that follow fetch i, up to the next
\* call of another kind.
Attempts(i) ==
    LET rest == {j \in (i + 1)..Len(log) : log[j].op \notin {"write", "parse"}}
        stop == IF rest = {} THEN Len(log) + 1
                ELSE CHOOSE j \in rest : \A k \in rest : j <= k
    IN SubSeq(log, i + 1, stop - 1)

FetchedOK == {i \in LogIdx : log[i].op = "fetch" /\ log[i].res.st = "OK"}

\* C9 (as claimed): a message whose fetch returned OK is written exactly
\* once, whatever the parts of the response, and the bytes written are the
\* message's.
C9_OneWritePerFetchedMessage ==
    \A i \in FetchedOK :
        Complete(i) =>
            LET w == SelectSeq(Attempts(i), LAMBDA e : e.op = "write")
            IN /\ Len(w) = 1
               /\ w[1].res.data[2] = server_message(mailboxes[log[i].box], log[i].id).bytes

\* C9 (amended): a message whose fetch returned OK is written once for each
\* tuple part of the response, in order, until a part does not parse or a
\* write fails, which ends the message; each write is given the message's
\* bytes, and a write that succeeds leaves exactly them in the file.
C9_WritesFollowTupleParts ==
    /\ \A i \in FetchedOK :
        LET t == SelectSeq(log[i].res.data, LAMBDA p : p # "bytes")
            a == Attempts(i)
        IN /\ Len(a) <= Len(t)
           /\ \A n \in 1..Len(a) :
               /\ t[n] = "badtuple" => a[n].op = "parse"
               /\ t[n] = "tuple" =>
                   /\ a[n].op = "write"
                   /\ a[n].res.data[2] = server_message(mailboxes[log[i].box], log[i].id).bytes
               /\ n < Len(a) => ~Failed(a[n])
           /\ Complete(i) =>
               (Len(a) < Len(t) => (Len(a) >= 1 /\ Failed(a[Len(a)])))
    /\ (log # <<>> /\ log[Len(log)].op = "write" /\ log[Len(log)].res.st = "ok") =>
        LET e == log[Len(log)]
        IN /\ PathOf(e) \in DOMAIN files
           /\ files[PathOf(e)] = server_message(mailboxes[e.box], e.id).bytes

\* C9's case: a response with two tuple parts, both written.
C9_Witness ==
    \E i \in FetchedOK :
        /\ Complete(i)
        /\ log[i].res.data = <<"tuple", "tuple">>
        /\ Len(Attempts(i)) = 2
        /\ ~Failed(Attempts(i)[2])

\* A step in which the processing of one message fails: a fetch that raises
\* or returns another status than OK, a part that does not parse, a file
\* that cannot be opened or written.
MessageFailure ==
    /\ Len(log') = Len(log) + 1
    /\ log'[Len(log')].op \in {"fetch", "parse", "write"}
    /\ Failed(log'[Len(log')])

\* The loop over the message numbers goes on: to the next number, or, after
\* the last, out of the mailbox.
LoopGoesOn ==
    IF msgIdx < Len(ids)
    THEN pc' = "fetch" /\ msgIdx' = msgIdx + 1 /\ ids' = ids /\ boxIdx' = boxIdx
    ELSE pc' \in {"select", "logout"}

\* The numbers fetched in a mailbox so far are the numbers its search
\* returned, in that order, none left out.
FetchOrder ==
    \A i \in LogIdx :
        (log[i].op = "search" /\ log[i].res.st = "OK" /\ Len(log[i].res.data) > 0) =>
            LET b == log[i].box
                want == split(log[i].res.data)
                got == SelectSeq(log, LAMBDA e : e.op = "fetch" /\ e.box = b)
                n == IF boxIdx = b /\ pc = "makedirs" THEN 0
                     ELSE IF boxIdx = b /\ pc = "fetch" THEN msgIdx - 1
                     ELSE IF boxIdx = b /\ pc = "part" THEN msgIdx
                     ELSE Len(want)
            IN /\ Len(got) = n
               /\ \A k \in 1..n : got[k].id = want[k]

\* C10 (as claimed): a failure while processing one message leaves every
\* file already written unchanged and does not stop the loop.
C10_FailureKeepsEveryFile ==
    [][MessageFailure =>
        /\ \A p \in DOMAIN files : p \in DOMAIN files' /\ files'[p] = files[p]
        /\ LoopGoesOn]_vars

\* C10 (amended): a failure while processing one message leaves every file
\* unchanged but the one a failed write had opened, and does not stop the
\* loop: every number the search returned is fetched, in search order.
C10_FailureKeepsOtherFiles ==
    /\ [][MessageFailure =>
            /\ \A p \in DOMAIN files :
                (log'[Len(log')].op = "write" /\ p = PathOf(log'[Len(log')]))
                    \/ (p \in DOMAIN files' /\ files'[p] = files[p])
            /\ LoopGoesOn]_vars
    /\ []FetchOrder

\* C10's case: in one mailbox a file was written for the first message, a
\* later part of that message failed, and the second message was fetched.
C10_Witness ==
    \E i, j, k \in LogIdx :
        /\ i < j /\ j < k
        /\ log[i].op = "write" /\ log[i].id = 1 /\ log[i].res.st = "ok"
        /\ log[j].op \in {"parse", "write"} /\ log[j].id = 1 /\ Failed(log[j])
        /\ log[j].box = log[i].box
        /\ log[k].op = "fetch" /\ log[k].id = 2 /\ log[k].box = log[i].box
        /\ PathOf(log[i]) \in DOMAIN files

====
